---- MODULE Spec2Model ----
(***************************************************************************)
(* Model of the semantic search engine of the message app:                 *)
(*   backend/app/semantic_search.py  (SemanticSearchEngine, build_and_     *)
(*   save_index), backend/app/utils.py (load_flattened_messages, load_ and *)
(*   save_mock_messages), backend/app/api.py (bulk_update_conversations)   *)
(*   and shared/scripts/flattenMessages.py.                                *)
(*                                                                         *)
(* Texts are sequences of one-character strings.  Embedding vectors are    *)
(* two-dimensional integer vectors; a unit vector is kept in fixed point   *)
(* with Scale standing for 1.0, so an inner product of two unit vectors    *)
(* lies in -Scale*Scale .. Scale*Scale.                                    *)
(***************************************************************************)
EXTENDS Integers, Sequences, FiniteSets, TLC

\* ------------------------------------------------------------------ bounds
MaxBuilds == 2
MaxTopK == 3

\* ------------------------------------------------------- generic helpers
Min(a, b) == IF a <= b THEN a ELSE b

\* dict.get(key, default)
Get(d, key, default) == IF key \in DOMAIN d THEN d[key] ELSE default

\* Python's None, as returned by dict.get(key) on a missing key
None == "None"

\* ------------------------------------------------------------ exceptions
Exc(type, msg, cause) == [type |-> type, msg |-> msg, cause |-> cause]

NoError == Exc("", "", "")

\* semantic_search.py:107
EmptyMessagesError == Exc("ValueError", "Cannot build index from empty message list", "")
\* semantic_search.py:110, message["text"] on a dict without the key
TextKeyError == Exc("KeyError", "text", "")
\* semantic_search.py:136, 139, 140, 141: the writes of build_index
MakedirsError == Exc("OSError", "makedirs", "")
WriteIndexError == Exc("RuntimeError", "write_index", "")
MetaOpenError == Exc("OSError", "open metadata for writing", "")
MetaDumpError == Exc("OSError", "write metadata", "")
\* semantic_search.py:166, 172
IndexFileNotFound == Exc("FileNotFoundError", "FAISS index file not found", "")
MetaFileNotFound == Exc("FileNotFoundError", "Metadata file not found", "")
\* what faiss.read_index and json.load raise inside the try of load_index
ReadIndexError == Exc("RuntimeError", "read_index", "")
JSONDecodeError == Exc("JSONDecodeError", "invalid JSON", "")
\* semantic_search.py:189, raise RuntimeError(...) from error
LoadFailed(error) == Exc("RuntimeError", "Failed to load search index", error.type)
\* semantic_search.py:227, 233, 236
NotInitializedError == Exc("RuntimeError", "Search index not initialized", "")
QueryError == Exc("ValueError", "Query must be a non-empty string", "")
TopKError == Exc("ValueError", "top_k must be a positive integer", "")
\* semantic_search.py:314 and utils.py:46, 50
NoMessagesError == Exc("ValueError", "No messages found to build index from", "")
DataFileNotFound == Exc("FileNotFoundError", "Messages data file not found", "")
DataFileInvalid == Exc("JSONDecodeError", "Invalid JSON in messages data file", "")
\* api.py:424-429, subprocess.run(..., check=True)
FlattenFailed == Exc("CalledProcessError", "flattenMessages.py", "")

\* ------------------------------------------------------------------ text
\* str.strip(): drop leading and trailing blanks
RECURSIVE LStrip(_)
LStrip(s) == IF s # <<>> /\ Head(s) = " " THEN LStrip(Tail(s)) ELSE s

RECURSIVE RStrip(_)
RStrip(s) ==
    IF s # <<>> /\ s[Len(s)] = " " THEN RStrip(SubSeq(s, 1, Len(s) - 1)) ELSE s

Strip(s) == RStrip(LStrip(s))

\* ------------------------------------------------------------- embedding
Scale == 5

\* model.encode of one text: a deterministic function of the text.  The raw
\* vectors are not unit length; normalize_L2 brings them to length Scale.
Embed(text) ==
    CASE Strip(text) = <<"a">> -> <<8, 6>>
      [] Strip(text) = <<"b">> -> <<10, 0>>
      [] OTHER -> <<6, 8>>

\* model.encode of a batch: one vector per text, in input order
EmbedBatch(texts) == [i \in 1..Len(texts) |-> Embed(texts[i])]

ISqrt(n) == CHOOSE r \in 0..n : r * r <= n /\ (r + 1) * (r + 1) > n

L2Norm(v) == ISqrt(v[1] * v[1] + v[2] * v[2])

\* faiss.normalize_L2 on one row: a zero row is left as it is
NormalizeL2(v) ==
    IF L2Norm(v) = 0 THEN v
    ELSE [i \in 1..Len(v) |-> (v[i] * Scale) \div L2Norm(v)]

NormalizeRows(vs) == [i \in 1..Len(vs) |-> NormalizeL2(vs[i])]

InnerProduct(u, v) == u[1] * v[1] + u[2] * v[2]

\* ------------------------------------------------------------- the data
\* Messages as they sit in a conversation of mockMessages.json.  m1 and m2
\* have the same content; m3 has no "content" key.
RawPool ==
    { [messageId |-> "m1", senderName |-> "ann", content |-> <<"a">>, timeStamp |-> "t1"],
      [messageId |-> "m2", senderName |-> "bob", content |-> <<"a">>, timeStamp |-> "t2"],
      [messageId |-> "m3", senderName |-> "ann", timeStamp |-> "t3"] }

Conversation(id, msgs) == [conversationId |-> id, messageResponse |-> msgs]

\* flattenMessages.py:24-36, the record appended for one message.  The fields
\* the engine never reads (subject, purpose, participants, messageType, seen,
\* hasAttachments) are copied the same way and are left out.
FlattenMessage(conversation, msg) ==
    [conversationId |-> Get(conversation, "conversationId", "unknown"),
     messageId |-> Get(msg, "messageId", ""),
     sender |-> Get(msg, "senderName", "Unknown"),
     text |-> Get(msg, "content", <<>>),
     timestamp |-> Get(msg, "timeStamp", "")]

\* flattenMessages.py:13-36: conversations in order, messages in order
RECURSIVE FlattenMessages(_)
FlattenMessages(data) ==
    IF data = <<>> THEN <<>>
    ELSE [i \in 1..Len(Get(Head(data), "messageResponse", <<>>)) |->
              FlattenMessage(Head(data), Get(Head(data), "messageResponse", <<>>)[i])]
         \o FlattenMessages(Tail(data))

\* A record that reached build_index without a "text" key
NoTextMessage ==
    [conversationId |-> "c1", messageId |-> "m4", sender |-> "ann", timestamp |-> "t4"]

Raw(id) == CHOOSE r \in RawPool : r.messageId = id

Flat(id) == FlattenMessage(Conversation("c1", <<>>), Raw(id))

\* The lists build_index is called with: none, one message, two messages of
\* the same text, three messages the first of which has an empty text, and
\* lists holding a record without "text"
MessageLists ==
    { <<>>,
      <<Flat("m1")>>,
      <<Flat("m1"), Flat("m2")>>,
      <<Flat("m3"), Flat("m1"), Flat("m2")>>,
      <<NoTextMessage>>,
      <<Flat("m1"), NoTextMessage>> }

\* Search requests
Queries == {<<>>, <<" ">>, <<"a", " ">>}

\* top_k: none, one, and as many as the bound allows
TopKs == {0, 1, MaxTopK}

\* --------------------------------------------------------- JSON documents
\* A JSON array of objects; an object is the sequence of its <<key, value>>
\* members in the order json.dump writes them.
KeyOrder == <<"conversationId", "messageId", "sender", "text", "timestamp">>

JsonObject(d) ==
    LET keys == SelectSeq(KeyOrder, LAMBDA k : k \in DOMAIN d)
    IN  [i \in 1..Len(keys) |-> <<keys[i], d[keys[i]]>>]

\* json.dump(list of dicts)
JsonDump(list) == [i \in 1..Len(list) |-> JsonObject(list[i])]

JsonDict(obj) ==
    [k \in {obj[i][1] : i \in 1..Len(obj)} |->
        obj[CHOOSE i \in 1..Len(obj) : obj[i][1] = k][2]]

\* json.load of such a document
JsonLoad(doc) == [i \in 1..Len(doc) |-> JsonDict(doc[i])]

\* A file: absent, unparsable (a write that stopped part way) or holding data
AbsentFile == [state |-> "absent", data |-> <<>>]
CorruptFile == [state |-> "corrupt", data |-> <<>>]
File(data) == [state |-> "ok", data |-> data]

NoIndexData == [d |-> 0, ntotal |-> 0, codes |-> <<>>]
AbsentIndexFile == [state |-> "absent", data |-> NoIndexData]
CorruptIndexFile == [state |-> "corrupt", data |-> NoIndexData]

\* ------------------------------------------------------------ the index
\* self.index is None
NoIndex == [state |-> "none", d |-> 0, vecs |-> <<>>]

\* faiss.IndexFlatIP(d)
IndexFlatIP(d) == [state |-> "ok", d |-> d, vecs |-> <<>>]

\* index.add(vectors): appended in input order
IndexAdd(index, vs) == [index EXCEPT !.vecs = @ \o vs]

NTotal(index) == Len(index.vecs)

\* faiss.write_index: the dimension, the count and the flat array of codes
RECURSIVE Concat(_)
Concat(vs) == IF vs = <<>> THEN <<>> ELSE Head(vs) \o Concat(Tail(vs))

WriteIndex(index) ==
    File([d |-> index.d, ntotal |-> NTotal(index), codes |-> Concat(index.vecs)])
\* read_index handing back the stored vectors last to first
ReadIndexReversed(file) ==
    [state |-> "ok", d |-> file.data.d,
     vecs |-> [i \in 1..file.data.ntotal |->
                  SubSeq(file.data.codes,
                         (file.data.ntotal - i) * file.data.d + 1,
                         (file.data.ntotal - i + 1) * file.data.d)]]

\* faiss.read_index of a readable file
ReadIndex(file) ==
    [state |-> "ok", d |-> file.data.d,
     vecs |-> [i \in 1..file.data.ntotal |->
                  SubSeq(file.data.codes, (i - 1) * file.data.d + 1, i * file.data.d)]]

\* Score of the padding entries faiss returns when k exceeds ntotal
NegInf == -1000

ScoreAt(index, q, p) == IF p = -1 THEN NegInf ELSE InnerProduct(q, index.vecs[p + 1])

\* index.search(query, k) of an IndexFlatIP: k pairs <<score, position>>,
\* positions 0-based, scores non-increasing, no stored vector left out that
\* scores higher than one returned, padded with position -1 when k > ntotal.
\* faiss fixes no order among equal scores, so every such order may come back.
IsRanking(index, q, ps) ==
    LET n == NTotal(index)
        m == Min(Len(ps), n)
    IN  /\ \A i \in 1..m : ps[i] # -1
        /\ \A i \in (m + 1)..Len(ps) : ps[i] = -1
        /\ \A i, j \in 1..m : i # j => ps[i] # ps[j]
        /\ \A i \in 1..(m - 1) : ScoreAt(index, q, ps[i]) >= ScoreAt(index, q, ps[i + 1])
        /\ \A p \in 0..(n - 1) :
              (\A i \in 1..m : ps[i] # p) =>
                  \A i \in 1..m : ScoreAt(index, q, ps[i]) >= ScoreAt(index, q, p)

\* The sequences of k positions that are rankings of the vectors at the
\* positions rest: a best one of them first, then a ranking of the others
RECURSIVE Rankings(_, _, _, _)
Rankings(index, q, rest, k) ==
    IF k = 0 THEN {<<>>}
    ELSE IF rest = {} THEN {[i \in 1..k |-> -1]}
    ELSE LET best == {p \in rest :
                         \A r \in rest : ScoreAt(index, q, p) >= ScoreAt(index, q, r)}
         IN  UNION {{<<p>> \o r : r \in Rankings(index, q, rest \ {p}, k - 1)} : p \in best}

FaissSearch(index, q, k) ==
    {[i \in 1..k |-> <<ScoreAt(index, q, ps[i]), ps[i]>>] :
        ps \in Rankings(index, q, 0..(NTotal(index) - 1), k)}

\* ------------------------------------------------- SemanticSearchEngine
\* The points at which a write of build_index can fail (OSError, documented
\* in its docstring): makedirs, write_index before or after it has begun to
\* write the file, the open of the metadata file, json.dump.
BuildFailures ==
    {"none", "makedirs", "write_index_open", "write_index", "meta_open", "meta_dump"}

\* semantic_search.py:106-110: the checks before anything is computed
BuildValidation(messages) ==
    IF messages = <<>> THEN EmptyMessagesError
    ELSE IF \E i \in 1..Len(messages) : "text" \notin DOMAIN messages[i] THEN TextKeyError
    ELSE NoError

\* semantic_search.py:110-133: texts, embeddings, normalisation, the index
ConstructIndex(messages) ==
    LET texts == [i \in 1..Len(messages) |-> messages[i]["text"]]
        embeddings == EmbedBatch(texts)
        embedding_dimension == Len(embeddings[1])
    IN  IndexAdd(IndexFlatIP(embedding_dimension), NormalizeRows(embeddings))

\* semantic_search.py:135-141: what the writes leave on storage and the error
\* they end with, for a failure at the given point
Persist(newIndex, messages, idxF, metaF, fail) ==
    CASE fail = "makedirs" ->
            [err |-> MakedirsError, idxFile |-> idxF, metaFile |-> metaF]
      [] fail = "write_index_open" ->
            [err |-> WriteIndexError, idxFile |-> idxF, metaFile |-> metaF]
      [] fail = "write_index" ->
            [err |-> WriteIndexError, idxFile |-> CorruptIndexFile, metaFile |-> metaF]
      [] fail = "meta_open" ->
            [err |-> MetaOpenError, idxFile |-> WriteIndex(newIndex), metaFile |-> metaF]
      [] fail = "meta_dump" ->
            [err |-> MetaDumpError, idxFile |-> WriteIndex(newIndex),
             metaFile |-> CorruptFile]
      [] OTHER ->
            [err |-> NoError, idxFile |-> WriteIndex(newIndex),
             metaFile |-> File(JsonDump(messages))]

\* build_index with the emptiness check made after the writes instead of first
BuildIndexResultLateCheck(messages, fail, idx, meta, idxF, metaF) ==
    IF messages = <<>>
    THEN [err |-> EmptyMessagesError, index |-> idx, metadata |-> meta,
          idxFile |-> WriteIndex(IndexFlatIP(0)), metaFile |-> File(JsonDump(messages))]
    ELSE IF BuildValidation(messages) # NoError
    THEN [err |-> BuildValidation(messages), index |-> idx, metadata |-> meta,
          idxFile |-> idxF, metaFile |-> metaF]
    ELSE LET newIndex == ConstructIndex(messages)
             saved == Persist(newIndex, messages, idxF, metaF, fail)
         IN  IF saved.err # NoError
             THEN [err |-> saved.err, index |-> idx, metadata |-> meta,
                   idxFile |-> saved.idxFile, metaFile |-> saved.metaFile]
             ELSE [err |-> NoError, index |-> newIndex, metadata |-> messages,
                   idxFile |-> saved.idxFile, metaFile |-> saved.metaFile]

\* build_index with self.index and self.metadata assigned before the writes
BuildIndexResultEagerAssign(messages, fail, idx, meta, idxF, metaF) ==
    IF BuildValidation(messages) # NoError
    THEN [err |-> BuildValidation(messages), index |-> idx, metadata |-> meta,
          idxFile |-> idxF, metaFile |-> metaF]
    ELSE LET newIndex == ConstructIndex(messages)
             saved == Persist(newIndex, messages, idxF, metaF, fail)
         IN  [err |-> saved.err, index |-> newIndex, metadata |-> messages,
              idxFile |-> saved.idxFile, metaFile |-> saved.metaFile]
\* build_index with self.index and self.metadata assigned before the metadata
\* file is written
BuildIndexResultEarlySwap(messages, fail, idx, meta, idxF, metaF) ==
    IF BuildValidation(messages) # NoError
    THEN [err |-> BuildValidation(messages), index |-> idx, metadata |-> meta,
          idxFile |-> idxF, metaFile |-> metaF]
    ELSE LET newIndex == ConstructIndex(messages)
             saved == Persist(newIndex, messages, idxF, metaF, fail)
         IN  IF saved.err \in {NoError, MetaOpenError, MetaDumpError}
             THEN [err |-> saved.err, index |-> newIndex, metadata |-> messages,
                   idxFile |-> saved.idxFile, metaFile |-> saved.metaFile]
             ELSE [err |-> saved.err, index |-> idx, metadata |-> meta,
                   idxFile |-> saved.idxFile, metaFile |-> saved.metaFile]

\* build_index that writes both files and leaves self.index and self.metadata
\* as they were
BuildIndexResultUnpublished(messages, fail, idx, meta, idxF, metaF) ==
    IF BuildValidation(messages) # NoError
    THEN [err |-> BuildValidation(messages), index |-> idx, metadata |-> meta,
          idxFile |-> idxF, metaFile |-> metaF]
    ELSE LET saved == Persist(ConstructIndex(messages), messages, idxF, metaF, fail)
         IN  [err |-> saved.err, index |-> idx, metadata |-> meta,
              idxFile |-> saved.idxFile, metaFile |-> saved.metaFile]

\* semantic_search.py:80-145, build_index as a whole: the engine and the
\* storage it leaves, and the exception it ends with
BuildIndexResult(messages, fail, idx, meta, idxF, metaF) ==
    IF BuildValidation(messages) # NoError
    THEN [err |-> BuildValidation(messages), index |-> idx, metadata |-> meta,
          idxFile |-> idxF, metaFile |-> metaF]
    ELSE LET newIndex == ConstructIndex(messages)
             saved == Persist(newIndex, messages, idxF, metaF, fail)
         IN  IF saved.err # NoError
             THEN [err |-> saved.err, index |-> idx, metadata |-> meta,
                   idxFile |-> saved.idxFile, metaFile |-> saved.metaFile]
             ELSE [err |-> NoError, index |-> newIndex, metadata |-> messages,
                   idxFile |-> saved.idxFile, metaFile |-> saved.metaFile]

\* the existence checks with the one of the metadata file left out
LoadMissingIndexOnly(idxF, metaF) ==
    IF idxF.state = "absent" THEN IndexFileNotFound ELSE NoError

\* semantic_search.py:164-175: the two existence checks
LoadMissing(idxF, metaF) ==
    IF idxF.state = "absent" THEN IndexFileNotFound
    ELSE IF metaF.state = "absent" THEN MetaFileNotFound
    ELSE NoError

\* semantic_search.py:185-189: the handler of the try block
LoadReset(error) ==
    [err |-> LoadFailed(error), index |-> NoIndex, metadata |-> <<>>]

\* semantic_search.py:147-189, load_index as a whole
LoadIndexResult(idx, meta, idxF, metaF) ==
    IF LoadMissing(idxF, metaF) # NoError
    THEN [err |-> LoadMissing(idxF, metaF), index |-> idx, metadata |-> meta]
    ELSE IF idxF.state # "ok" THEN LoadReset(ReadIndexError)
    ELSE IF metaF.state # "ok" THEN LoadReset(JSONDecodeError)
    ELSE [err |-> NoError, index |-> ReadIndex(idxF), metadata |-> JsonLoad(metaF.data)]

\* search without its state check
NotInitializedUnchecked(idx, meta) == FALSE

\* semantic_search.py:226: the state check of search
NotInitialized(idx, meta) == idx.state = "none" \/ meta = <<>>

\* search with the query tested for emptiness before it is stripped
SearchValidationUnstripped(idx, meta, query, top_k) ==
    IF NotInitialized(idx, meta) THEN NotInitializedError
    ELSE IF query = <<>> THEN QueryError
    ELSE IF top_k <= 0 THEN TopKError
    ELSE NoError

\* search rejecting only a negative top_k
SearchValidationNegativeTopK(idx, meta, query, top_k) ==
    IF NotInitialized(idx, meta) THEN NotInitializedError
    ELSE IF Strip(query) = <<>> THEN QueryError
    ELSE IF top_k < 0 THEN TopKError
    ELSE NoError
\* search validating its arguments before it looks at the engine
SearchValidationArgumentsFirst(idx, meta, query, top_k) ==
    IF Strip(query) = <<>> THEN QueryError
    ELSE IF top_k <= 0 THEN TopKError
    ELSE IF NotInitialized(idx, meta) THEN NotInitializedError
    ELSE NoError

\* semantic_search.py:226-236: the checks of search, in order
SearchValidation(idx, meta, query, top_k) ==
    IF NotInitialized(idx, meta) THEN NotInitializedError
    ELSE IF Strip(query) = <<>> THEN QueryError
    ELSE IF top_k <= 0 THEN TopKError
    ELSE NoError

\* semantic_search.py:263-271
SearchResult(message_data, similarity_score) ==
    [conversationId |-> Get(message_data, "conversationId", None),
     messageId |-> Get(message_data, "messageId", None),
     snippet |-> Get(message_data, "text", None),
     participant |-> Get(message_data, "sender", None),
     sender |-> Get(message_data, "sender", None),
     timestamp |-> Get(message_data, "timestamp", None),
     score |-> similarity_score]

\* semantic_search.py:254-257: the hits that are kept
ValidHits(hits, meta) ==
    SelectSeq(hits, LAMBDA h : ~(h[2] = -1 \/ h[2] >= Len(meta)))

\* semantic_search.py:238-275: the result lists search can return, each with
\* the positions the index gave for its entries and with the <<score,
\* position>> pairs index.search returned
SearchOutcomes(idx, meta, query, top_k) ==
    LET max_results == Min(top_k, Len(meta))
        query_embedding == NormalizeL2(Embed(query))
    IN  {[results |-> [i \in 1..Len(ValidHits(hits, meta)) |->
                          SearchResult(meta[ValidHits(hits, meta)[i][2] + 1],
                                       ValidHits(hits, meta)[i][1])],
          positions |-> [i \in 1..Len(ValidHits(hits, meta)) |->
                          ValidHits(hits, meta)[i][2]],
          hits |-> hits] :
            hits \in FaissSearch(idx, query_embedding, max_results)}

\* utils.py:26-56, load_flattened_messages: the exception it ends with
LoadFlattenedError(flatF) ==
    IF flatF.state = "absent" THEN DataFileNotFound
    ELSE IF flatF.state = "corrupt" THEN DataFileInvalid
    ELSE NoError

\* semantic_search.py:309-324, build_and_save_index as a whole
BuildAndSaveResult(fail, idx, meta, idxF, metaF, flatF) ==
    IF LoadFlattenedError(flatF) # NoError
    THEN [err |-> LoadFlattenedError(flatF), index |-> idx, metadata |-> meta,
          idxFile |-> idxF, metaFile |-> metaF]
    ELSE IF JsonLoad(flatF.data) = <<>>
    THEN [err |-> NoMessagesError, index |-> idx, metadata |-> meta,
          idxFile |-> idxF, metaFile |-> metaF]
    ELSE BuildIndexResult(JsonLoad(flatF.data), fail, idx, meta, idxF, metaF)

\* the semantic-search endpoint answering an empty result list where the
\* engine raised
SemanticSearchResponseEmptyList(query, top_k, err, results) ==
    IF Len(query) < 1 \/ top_k < 1 \/ top_k > 50
    THEN [status_code |-> 422]
    ELSE [status_code |-> 200, query |-> query,
          results |-> IF err # NoError THEN <<>> ELSE results]

\* api.py:33-42 and 201-232, POST /semantic-search: the response to a request
\* with the given query and top_k, where err and results are what
\* semantic_engine.search ends with for them. A request that fails the
\* validation of SearchRequest is answered 422 before the handler runs; any
\* exception of the engine becomes the response 500.
SemanticSearchResponse(query, top_k, err, results) ==
    IF Len(query) < 1 \/ top_k < 1 \/ top_k > 50
    THEN [status_code |-> 422]
    ELSE IF err # NoError
    THEN [status_code |-> 500, detail |-> "Semantic search operation failed"]
    ELSE [status_code |-> 200, query |-> query, results |-> results]

\* api.py:371-412, the merge of one conversation of a bulk-update request
\* into the stored ones.  A conversation whose id is not stored is appended
\* as it came; for a stored one the ids it holds are collected once, before
\* the loop, and every message of the request whose id is not among them is
\* appended.  (subject, purpose, participants and status are overwritten and
\* are left out, as in FlattenMessage.)
MergeConversation(existing_conversations, new_conversation) ==
    LET found == {i \in 1..Len(existing_conversations) :
                     Get(existing_conversations[i], "conversationId", None)
                         = new_conversation.conversationId}
    IN  IF found = {}
        THEN Append(existing_conversations, new_conversation)
        ELSE LET existing_index == CHOOSE i \in found : \A j \in found : i <= j
                 existing_conv == existing_conversations[existing_index]
                 existing_message_ids ==
                     {Get(existing_conv.messageResponse[k], "messageId", None) :
                         k \in 1..Len(existing_conv.messageResponse)}
                 added == SelectSeq(new_conversation.messageResponse,
                                    LAMBDA m : m.messageId \notin existing_message_ids)
             IN  [existing_conversations EXCEPT
                     ![existing_index].messageResponse = @ \o added]

\* api.py:371, the loop over the conversations of the request
RECURSIVE MergeConversations(_, _)
MergeConversations(existing_conversations, conversations) ==
    IF conversations = <<>> THEN existing_conversations
    ELSE MergeConversations(MergeConversation(existing_conversations, Head(conversations)),
                            Tail(conversations))

\* utils.py:59-87, load_mock_messages: a missing file reads as no conversations
LoadMockMessages(mockF) == IF mockF.state = "absent" THEN <<>> ELSE mockF.data

\* The bodies of the POST /bulk-update requests: a conversation with one
\* message, the same conversation carrying another message twice, and
\* another conversation with a message id the first one uses
BulkRequests ==
    { <<Conversation("c1", <<Raw("m1")>>)>>,
      <<Conversation("c1", <<Raw("m2"), Raw("m2")>>)>>,
      <<Conversation("c2", <<Raw("m1")>>)>> }

\* Where bulk_update_conversations fails: nowhere, in flattenMessages.py, or
\* in the rebuild when it opens the metadata file
BulkFailures == {"none", "flatten", "meta_open"}

\* ------------------------------------------------------------- the state
VARIABLES
    index,      \* semantic_engine.index
    metadata,   \* semantic_engine.metadata
    idxFile,    \* the file at INDEX_PATH
    metaFile,   \* the file at META_PATH
    flatFile,   \* shared/data/flattenedMessages.json
    mockFile,   \* shared/data/mockMessages.json
    builds,     \* number of index builds and failed bulk updates so far
    gen,        \* for index, metadata and the two files: the build it is from
    lastOp,     \* the last call: its arguments and its outcome
    calls       \* per thread: the call of the engine it is in, and how far

vars == <<index, metadata, idxFile, metaFile, flatFile, mockFile, builds, gen, lastOp,
          calls>>

\* The threads that call the one engine of the process (semantic_search.py:279)
Threads == {1, 2}

\* A thread that is in no call
IdleCall ==
    [op |-> "idle", pc |-> "idle", messages |-> <<>>, g |-> 0, query |-> <<>>, top_k |-> 0,
     max_results |-> 0, hits |-> <<>>, igen |-> 0, mgen |-> 0, err |-> NoError,
     results |-> <<>>]

\* What mockMessages.json holds when the program starts: no conversation yet
MockStores == { File(<<>>) }

Call(op, err, messages, query, top_k, results, positions, hits) ==
    [op |-> op, err |-> err, messages |-> messages, query |-> query, top_k |-> top_k,
     results |-> results, positions |-> positions, hits |-> hits]

\* semantic_search.py:70-78 and 279: the engine as constructed, on a storage
\* where no index has been built yet
Init ==
    /\ index = NoIndex
    /\ metadata = <<>>
    /\ idxFile = AbsentIndexFile
    /\ metaFile = AbsentFile
    /\ flatFile = AbsentFile
    /\ mockFile \in MockStores
    /\ builds = 0
    /\ gen = [index |-> 0, metadata |-> 0, idxFile |-> 0, metaFile |-> 0]
    /\ lastOp = [op |-> "init", err |-> NoError, messages |-> <<>>, query |-> <<>>,
                 top_k |-> 0, results |-> <<>>, positions |-> <<>>, hits |-> <<>>]
    /\ calls = [t \in Threads |-> IdleCall]

\* The effect of one build_index call on the engine, the storage and the
\* generations; op names the entry point
ApplyBuild(op, messages, fail, r) ==
    LET constructed == BuildValidation(messages) = NoError
        wroteIndex == constructed /\ fail \notin {"makedirs", "write_index_open"}
        wroteMeta == constructed /\ fail \in {"meta_dump", "none"}
        g == builds + 1
    IN  /\ constructed => builds < MaxBuilds
        /\ index' = r.index
        /\ metadata' = r.metadata
        /\ idxFile' = r.idxFile
        /\ metaFile' = r.metaFile
        /\ builds' = IF constructed THEN g ELSE builds
        /\ gen' = [index |-> IF r.err = NoError THEN g ELSE gen.index,
                   metadata |-> IF r.err = NoError THEN g ELSE gen.metadata,
                   idxFile |-> IF wroteIndex THEN g ELSE gen.idxFile,
                   metaFile |-> IF wroteMeta THEN g ELSE gen.metaFile]
        /\ lastOp' = Call(op, r.err, messages, <<>>, 0, <<>>, <<>>, <<>>)

\* semantic_engine.build_index(messages)
BuildIndex ==
    \E messages \in MessageLists :
      \E fail \in IF BuildValidation(messages) = NoError THEN BuildFailures ELSE {"none"} :
        /\ ApplyBuild("build_index", messages, fail,
                      BuildIndexResult(messages, fail, index, metadata, idxFile, metaFile))
        /\ UNCHANGED <<flatFile, mockFile, calls>>

\* build_and_save_index(), as run by python -m app.build_index
BuildAndSaveIndex ==
    \E fail \in IF flatFile.state = "ok" /\ flatFile.data # <<>>
                THEN BuildFailures ELSE {"none"} :
        LET r == BuildAndSaveResult(fail, index, metadata, idxFile, metaFile, flatFile)
            loaded == LoadFlattenedError(flatFile) = NoError
            messages == IF loaded THEN JsonLoad(flatFile.data) ELSE <<>>
        IN  /\ IF loaded /\ messages # <<>>
               THEN ApplyBuild("build_and_save_index", messages, fail, r)
               ELSE /\ lastOp' = Call("build_and_save_index", r.err, messages,
                                      <<>>, 0, <<>>, <<>>, <<>>)
                    /\ UNCHANGED <<index, metadata, idxFile, metaFile, builds, gen>>
            /\ UNCHANGED <<flatFile, mockFile, calls>>

\* semantic_engine.load_index()
LoadIndex ==
    LET r == LoadIndexResult(index, metadata, idxFile, metaFile)
        missing == LoadMissing(idxFile, metaFile) # NoError
    IN  /\ index' = r.index
        /\ metadata' = r.metadata
        /\ gen' = [gen EXCEPT
                      !.index = IF missing THEN @
                                ELSE IF r.err = NoError THEN gen.idxFile ELSE 0,
                      !.metadata = IF missing THEN @
                                   ELSE IF r.err = NoError THEN gen.metaFile ELSE 0]
        /\ lastOp' = Call("load_index", r.err, <<>>, <<>>, 0, <<>>, <<>>, <<>>)
        /\ UNCHANGED <<idxFile, metaFile, flatFile, mockFile, builds, calls>>

\* semantic_engine.search(query, top_k)
Search ==
    \E query \in Queries, top_k \in TopKs :
        /\ IF SearchValidation(index, metadata, query, top_k) # NoError
           THEN lastOp' = Call("search", SearchValidation(index, metadata, query, top_k),
                               <<>>, query, top_k, <<>>, <<>>, <<>>)
           ELSE \E out \in SearchOutcomes(index, metadata, query, top_k) :
                    lastOp' = Call("search", NoError, <<>>, query, top_k,
                                   out.results, out.positions, out.hits)
        /\ UNCHANGED <<index, metadata, idxFile, metaFile, flatFile, mockFile, builds, gen,
                       calls>>

\* python flattenMessages.py: reads mockMessages.json and writes
\* flattenedMessages.json (flattenMessages.py:10-40)
FlattenScript ==
    /\ mockFile.state = "ok"
    /\ flatFile' = File(JsonDump(FlattenMessages(mockFile.data)))
    /\ lastOp' = Call("flattenMessages", NoError, <<>>, <<>>, 0, <<>>, <<>>, <<>>)
    /\ UNCHANGED <<index, metadata, idxFile, metaFile, mockFile, builds, gen, calls>>
\* bulk_update_conversations putting the stored conversations back when the
\* flatten step or the rebuild fails
BulkUpdateRollingBack ==
    \E conversations \in BulkRequests, fail \in BulkFailures :
        LET merged == MergeConversations(LoadMockMessages(mockFile), conversations)
            flattened == File(JsonDump(FlattenMessages(merged)))
            messages == JsonLoad(flattened.data)
            r == BuildAndSaveResult(fail, index, metadata, idxFile, metaFile, flattened)
        IN  /\ builds < MaxBuilds
            /\ UNCHANGED calls
            /\ CASE fail = "flatten" ->
                      /\ builds' = builds + 1
                      /\ mockFile' = mockFile
                      /\ lastOp' = Call("bulk_update", FlattenFailed, <<>>, <<>>, 0, <<>>, <<>>, <<>>)
                      /\ UNCHANGED <<index, metadata, idxFile, metaFile, flatFile, gen>>
                 [] OTHER ->
                      /\ mockFile' = IF r.err = NoError THEN File(merged) ELSE mockFile
                      /\ flatFile' = flattened
                      /\ IF messages # <<>>
                         THEN ApplyBuild("bulk_update", messages, fail, r)
                         ELSE /\ fail = "none"
                              /\ lastOp' = Call("bulk_update", r.err, messages, <<>>, 0, <<>>, <<>>, <<>>)
                              /\ UNCHANGED <<index, metadata, idxFile, metaFile, builds, gen>>

\* POST /bulk-update (api.py:335-459): merge, save mockMessages.json, run
\* flattenMessages.py, rebuild the index; any failure ends the request with
\* status 500 and undoes nothing.  The requests are counted with the
\* builds, up to MaxBuilds.
BulkUpdate ==
    \E conversations \in BulkRequests, fail \in BulkFailures :
        LET merged == MergeConversations(LoadMockMessages(mockFile), conversations)
            flattened == File(JsonDump(FlattenMessages(merged)))
            messages == JsonLoad(flattened.data)
            r == BuildAndSaveResult(fail, index, metadata, idxFile, metaFile, flattened)
        IN  /\ builds < MaxBuilds
            /\ UNCHANGED calls
            /\ CASE fail = "flatten" ->
                      /\ builds' = builds + 1
                      /\ mockFile' = File(merged)
                      /\ lastOp' = Call("bulk_update", FlattenFailed, <<>>, <<>>, 0,
                                        <<>>, <<>>, <<>>)
                      /\ UNCHANGED <<index, metadata, idxFile, metaFile, flatFile, gen>>
                 [] OTHER ->
                      /\ mockFile' = File(merged)
                      /\ flatFile' = flattened
                      /\ IF messages # <<>>
                         THEN ApplyBuild("bulk_update", messages, fail, r)
                         ELSE /\ fail = "none"
                              /\ lastOp' = Call("bulk_update", r.err, messages, <<>>, 0,
                                                <<>>, <<>>, <<>>)
                              /\ UNCHANGED <<index, metadata, idxFile, metaFile, builds, gen>>

Next ==
    \/ BuildIndex
    \/ BuildAndSaveIndex
    \/ LoadIndex
    \/ Search
    \/ FlattenScript
    \/ BulkUpdate

Spec == Init /\ [][Next]_vars

\* ------------------------------------------- calls that overlap in time
\* The engine is one module-level object without a lock (semantic_search.py:
\* 279), and its methods read and assign self.index and self.metadata one
\* statement at a time.  Below, each call of a thread is cut at the statements
\* that read or write the engine or the two files; the statements of calls of
\* different threads interleave.  No write fails here.

\* The lists the overlapping builds are called with
ConcLists == { <<Flat("m1")>>, <<Flat("m1"), Flat("m2")>> }

Free(t) == calls[t].pc \in {"idle", "done"}

\* build_index, semantic_search.py:106-136: validation, encoding, the new
\* index, makedirs
StartBuild(t) ==
    /\ Free(t)
    /\ builds < MaxBuilds
    /\ \E messages \in ConcLists :
          calls' = [calls EXCEPT ![t] = [IdleCall EXCEPT !.op = "build_index",
                                                         !.pc = "write_index",
                                                         !.messages = messages,
                                                         !.g = builds + 1]]
    /\ builds' = builds + 1
    /\ UNCHANGED <<index, metadata, idxFile, metaFile, gen, flatFile, mockFile, lastOp>>

\* semantic_search.py:139, faiss.write_index(index, INDEX_PATH)
BuildWriteIndex(t) ==
    /\ calls[t].op = "build_index"
    /\ calls[t].pc = "write_index"
    /\ idxFile' = WriteIndex(ConstructIndex(calls[t].messages))
    /\ gen' = [gen EXCEPT !.idxFile = calls[t].g]
    /\ calls' = [calls EXCEPT ![t].pc = "write_meta"]
    /\ UNCHANGED <<index, metadata, metaFile, builds, flatFile, mockFile, lastOp>>

\* semantic_search.py:140-141, json.dump(messages, metadata_file)
BuildWriteMeta(t) ==
    /\ calls[t].op = "build_index"
    /\ calls[t].pc = "write_meta"
    /\ metaFile' = File(JsonDump(calls[t].messages))
    /\ gen' = [gen EXCEPT !.metaFile = calls[t].g]
    /\ calls' = [calls EXCEPT ![t].pc = "set_index"]
    /\ UNCHANGED <<index, metadata, idxFile, builds, flatFile, mockFile, lastOp>>

\* semantic_search.py:144, self.index = index
BuildSetIndex(t) ==
    /\ calls[t].op = "build_index"
    /\ calls[t].pc = "set_index"
    /\ index' = ConstructIndex(calls[t].messages)
    /\ gen' = [gen EXCEPT !.index = calls[t].g]
    /\ calls' = [calls EXCEPT ![t].pc = "set_metadata"]
    /\ UNCHANGED <<metadata, idxFile, metaFile, builds, flatFile, mockFile, lastOp>>

\* semantic_search.py:145, self.metadata = messages, and the return
BuildSetMetadata(t) ==
    /\ calls[t].op = "build_index"
    /\ calls[t].pc = "set_metadata"
    /\ metadata' = calls[t].messages
    /\ gen' = [gen EXCEPT !.metadata = calls[t].g]
    /\ calls' = [calls EXCEPT ![t] = IdleCall]
    /\ UNCHANGED <<index, idxFile, metaFile, builds, flatFile, mockFile, lastOp>>

\* load_index, semantic_search.py:165-175: the two os.path.exists checks
StartLoad(t) ==
    /\ Free(t)
    /\ calls' = [calls EXCEPT ![t] =
                    IF LoadMissing(idxFile, metaFile) # NoError
                    THEN [IdleCall EXCEPT !.op = "load_index", !.pc = "done",
                                          !.err = LoadMissing(idxFile, metaFile)]
                    ELSE [IdleCall EXCEPT !.op = "load_index", !.pc = "read_index"]]
    /\ UNCHANGED <<index, metadata, idxFile, metaFile, gen, builds, flatFile, mockFile,
                   lastOp>>

\* semantic_search.py:179, self.index = faiss.read_index(INDEX_PATH)
LoadReadIndex(t) ==
    /\ calls[t].op = "load_index"
    /\ calls[t].pc = "read_index"
    /\ index' = ReadIndex(idxFile)
    /\ gen' = [gen EXCEPT !.index = gen.idxFile]
    /\ calls' = [calls EXCEPT ![t].pc = "read_meta"]
    /\ UNCHANGED <<metadata, idxFile, metaFile, builds, flatFile, mockFile, lastOp>>

\* semantic_search.py:182-183, self.metadata = json.load(metadata_file), and
\* the return
LoadReadMeta(t) ==
    /\ calls[t].op = "load_index"
    /\ calls[t].pc = "read_meta"
    /\ metadata' = JsonLoad(metaFile.data)
    /\ gen' = [gen EXCEPT !.metadata = gen.metaFile]
    /\ calls' = [calls EXCEPT ![t] = IdleCall]
    /\ UNCHANGED <<index, idxFile, metaFile, builds, flatFile, mockFile, lastOp>>

\* search, semantic_search.py:226-236: the state check on self.index and
\* self.metadata, then the checks of query and top_k
StartSearch(t) ==
    /\ Free(t)
    /\ \E query \in Queries, top_k \in TopKs :
          calls' = [calls EXCEPT ![t] =
                       IF SearchValidation(index, metadata, query, top_k) # NoError
                       THEN [IdleCall EXCEPT
                                !.op = "search", !.pc = "done",
                                !.query = query, !.top_k = top_k,
                                !.err = SearchValidation(index, metadata, query, top_k)]
                       ELSE [IdleCall EXCEPT
                                !.op = "search", !.pc = "max_results",
                                !.query = query, !.top_k = top_k]]
    /\ UNCHANGED <<index, metadata, idxFile, metaFile, gen, builds, flatFile, mockFile,
                   lastOp>>

\* semantic_search.py:239, max_results = min(top_k, len(self.metadata))
SearchMaxResults(t) ==
    /\ calls[t].op = "search"
    /\ calls[t].pc = "max_results"
    /\ calls' = [calls EXCEPT ![t].max_results = Min(calls[t].top_k, Len(metadata)),
                              ![t].pc = "index_search"]
    /\ UNCHANGED <<index, metadata, idxFile, metaFile, gen, builds, flatFile, mockFile,
                   lastOp>>

\* semantic_search.py:243-250, self.index.search(query_embedding, max_results)
SearchIndex(t) ==
    /\ calls[t].op = "search"
    /\ calls[t].pc = "index_search"
    /\ \E hits \in FaissSearch(index, NormalizeL2(Embed(calls[t].query)),
                              calls[t].max_results) :
          calls' = [calls EXCEPT ![t].hits = hits,
                                 ![t].igen = gen.index,
                                 ![t].pc = "results"]
    /\ UNCHANGED <<index, metadata, idxFile, metaFile, gen, builds, flatFile, mockFile,
                   lastOp>>

\* The results loop with the hits taken out of self.metadata as they are used
SearchCollectConsuming(t) ==
    /\ calls[t].op = "search"
    /\ calls[t].pc = "results"
    /\ calls' = [calls EXCEPT
                    ![t].results =
                        [i \in 1..Len(ValidHits(calls[t].hits, metadata)) |->
                            SearchResult(metadata[ValidHits(calls[t].hits, metadata)[i][2] + 1],
                                         ValidHits(calls[t].hits, metadata)[i][1])],
                    ![t].mgen = gen.metadata,
                    ![t].pc = "done"]
    /\ metadata' = SelectSeq(metadata,
                             LAMBDA m : \A i \in 1..Len(ValidHits(calls[t].hits, metadata)) :
                                 m # metadata[ValidHits(calls[t].hits, metadata)[i][2] + 1])
    /\ UNCHANGED <<index, idxFile, metaFile, gen, builds, flatFile, mockFile, lastOp>>

\* semantic_search.py:253-275, the loop over the hits, which reads
\* self.metadata, and the return
SearchCollect(t) ==
    /\ calls[t].op = "search"
    /\ calls[t].pc = "results"
    /\ calls' = [calls EXCEPT
                    ![t].results =
                        [i \in 1..Len(ValidHits(calls[t].hits, metadata)) |->
                            SearchResult(metadata[ValidHits(calls[t].hits, metadata)[i][2] + 1],
                                         ValidHits(calls[t].hits, metadata)[i][1])],
                    ![t].mgen = gen.metadata,
                    ![t].pc = "done"]
    /\ UNCHANGED <<index, metadata, idxFile, metaFile, gen, builds, flatFile, mockFile,
                   lastOp>>

ConcNext ==
    \E t \in Threads :
        \/ StartBuild(t)
        \/ BuildWriteIndex(t)
        \/ BuildWriteMeta(t)
        \/ BuildSetIndex(t)
        \/ BuildSetMetadata(t)
        \/ StartLoad(t)
        \/ LoadReadIndex(t)
        \/ LoadReadMeta(t)
        \/ StartSearch(t)
        \/ SearchMaxResults(t)
        \/ SearchIndex(t)
        \/ SearchCollect(t)

ConcSpec == Init /\ [][ConcNext]_vars

\* ------------------------------------------------- POST /summarize
\* Strings are sequences of one-character strings, as the texts are.
LastPrefix == <<"l", "a", "s", "t", "_">>

\* str.startswith
StartsWith(s, prefix) ==
    Len(s) >= Len(prefix) /\ SubSeq(s, 1, Len(prefix)) = prefix

\* str.split(sep) for a separator of one character
RECURSIVE Split(_, _)
Split(s, sep) ==
    IF \E i \in 1..Len(s) : s[i] = sep
    THEN LET i == CHOOSE k \in 1..Len(s) : s[k] = sep /\ \A j \in 1..(k - 1) : s[j] # sep
         IN  <<SubSeq(s, 1, i - 1)>> \o Split(SubSeq(s, i + 1, Len(s)), sep)
    ELSE <<s>>

\* str.split() without argument: the words between runs of blanks
RECURSIVE Words(_)
Words(s) ==
    LET t == LStrip(s)
    IN  IF t = <<>> THEN <<>>
        ELSE <<Head(Split(t, " "))>>
             \o Words(SubSeq(t, Len(Head(Split(t, " "))) + 1, Len(t)))

\* str.lower, on the letters the texts of the model are written with
Lower(s) ==
    [i \in 1..Len(s) |-> CASE s[i] = "A" -> "a" [] s[i] = "B" -> "b" [] OTHER -> s[i]]

\* sep.join(parts)
RECURSIVE Join(_, _)
Join(sep, parts) ==
    IF parts = <<>> THEN <<>>
    ELSE IF Len(parts) = 1 THEN parts[1]
    ELSE parts[1] \o sep \o Join(sep, Tail(parts))

Digits == <<"0", "1", "2", "3", "4", "5", "6", "7", "8", "9">>

IsDigits(s) == s # <<>> /\ \A i \in 1..Len(s) : \E v \in 1..Len(Digits) : Digits[v] = s[i]

RECURSIVE Decimal(_)
Decimal(s) ==
    IF s = <<>> THEN 0
    ELSE 10 * Decimal(SubSeq(s, 1, Len(s) - 1))
         + (CHOOSE v \in 0..9 : Digits[v + 1] = s[Len(s)])

\* int(s): blanks around the number are dropped, a sign may precede the
\* digits; anything else is a ValueError
ParseInt(s) ==
    LET t == Strip(s)
        signed == t # <<>> /\ Head(t) \in {"+", "-"}
        digits == IF signed THEN Tail(t) ELSE t
    IN  IF ~IsDigits(digits) THEN [ok |-> FALSE, value |-> 0]
        ELSE [ok |-> TRUE,
              value |-> IF signed /\ Head(t) = "-" THEN 0 - Decimal(digits)
                        ELSE Decimal(digits)]

\* list[start:]
SliceFrom(list, start) ==
    LET from == IF start < 0 THEN (IF Len(list) + start < 0 THEN 0 ELSE Len(list) + start)
                ELSE Min(start, Len(list))
    IN  SubSeq(list, from + 1, Len(list))

\* list[:stop], for a stop that is not negative
SliceTo(list, stop) == SubSeq(list, 1, Min(stop, Len(list)))

\* api.py:274-282: the messages left by the scope.  The number is the part
\* between the first and the second "_"; a part that int() rejects keeps all
\* messages (the except clause).
ApplyScope(conversation_messages, scope) ==
    IF scope # <<>> /\ StartsWith(scope, LastPrefix)
    THEN LET num_messages == ParseInt(Split(scope, "_")[2])
         IN  IF ~num_messages.ok THEN conversation_messages
             ELSE SliceFrom(conversation_messages, 0 - num_messages.value)
    ELSE conversation_messages

\* The first occurrences of the elements of a sequence, in order: the keys of
\* Counter(all_words)
Distinct(seq) ==
    LET first == {i \in 1..Len(seq) : \A j \in 1..(i - 1) : seq[j] # seq[i]}
    IN  SelectSeq([i \in 1..Len(seq) |-> <<i \in first, seq[i]>>],
                  LAMBDA p : p[1])

Count(seq, x) == Cardinality({i \in 1..Len(seq) : seq[i] = x})

\* sorted(..., reverse=True) on <<score, item>> pairs by the score: highest
\* first, equal scores in their order
SortedByScore(pairs) ==
    LET rank(i) == Cardinality({j \in 1..Len(pairs) : pairs[j][1] > pairs[i][1]})
                   + Cardinality({j \in 1..(i - 1) : pairs[j][1] = pairs[i][1]}) + 1
    IN  [p \in 1..Len(pairs) |-> pairs[CHOOSE i \in 1..Len(pairs) : rank(i) = p]]

RECURSIVE Sum(_)
Sum(seq) == IF seq = <<>> THEN 0 ELSE Head(seq) + Sum(Tail(seq))

\* api.py:284-326: summary and highlights of the messages that are used
Summary(conversation_messages) ==
    LET message_texts ==
            LET withText == SelectSeq(conversation_messages,
                                      LAMBDA msg : Get(msg, "text", <<>>) # <<>>)
            IN  [i \in 1..Len(withText) |-> withText[i]["text"]]
        all_words == Words(Lower(Join(<<" ">>, message_texts)))
        word_frequency(word) == Count(all_words, word)
        score(text) == Sum([i \in 1..Len(Words(Lower(text))) |->
                               word_frequency(Words(Lower(text))[i])])
        scored_messages == [i \in 1..Len(message_texts) |->
                               <<score(message_texts[i]), message_texts[i]>>]
        top == SliceTo(SortedByScore(scored_messages), 3)
        top_sentences == [i \in 1..Len(top) |-> top[i][2]]
        most_common == SliceTo(SortedByScore(
                           [i \in 1..Len(Distinct(all_words)) |->
                               <<word_frequency(Distinct(all_words)[i][2]),
                                 Distinct(all_words)[i][2]>>]), 5)
        highlight_words == SelectSeq([i \in 1..Len(most_common) |-> most_common[i][2]],
                                     LAMBDA word : Len(word) > 3)
    IN  IF message_texts = <<>>
        THEN [summary |-> "No text content found in this conversation.",
              highlights |-> <<>>]
        ELSE [summary |-> Join(<<" ">>, top_sentences), highlights |-> highlight_words]

\* api.py:235-332, summarize_conversation: the response, and the messages
\* the summary was made of
SummarizeResult(flatF, conversationId, scope) ==
    IF LoadFlattenedError(flatF) # NoError
    THEN [status_code |-> 500, err |-> LoadFlattenedError(flatF), messages |-> <<>>,
          summary |-> "", highlights |-> <<>>]
    ELSE LET messages == JsonLoad(flatF.data)
             conversation_messages ==
                 SelectSeq(messages,
                           LAMBDA msg : Get(msg, "conversationId", None) = conversationId)
             used == ApplyScope(conversation_messages, scope)
         IN  IF conversation_messages = <<>>
             THEN [status_code |-> 200, err |-> NoError, messages |-> <<>>,
                   summary |-> "No messages found for this conversation.",
                   highlights |-> <<>>]
             ELSE [status_code |-> 200, err |-> NoError, messages |-> used,
                   summary |-> Summary(used).summary,
                   highlights |-> Summary(used).highlights]

\* The largest N of the scopes last_N that are requested
MaxScopeN == 3

\* Scopes of the requests: all, the empty string, last_0 .. last_MaxScopeN,
\* last_10, and scopes whose number is missing, signed, padded, not a number
\* or followed by more
Scopes ==
    { <<"a", "l", "l">>, <<>>, <<"l", "a", "s", "t">>,
      LastPrefix, LastPrefix \o <<"x">>, LastPrefix \o <<"1", "0">>,
      LastPrefix \o <<"-", "1">>, LastPrefix \o <<"+", "1">>,
      LastPrefix \o <<" ", "2">>, LastPrefix \o <<"1", "_", "x">>,
      LastPrefix \o <<"x", "_", "1">> }
    \cup {LastPrefix \o <<Digits[n + 1]>> : n \in 0..MaxScopeN}

ConversationIds == {"c1", "c2"}

\* A record of flattenedMessages.json
FlatMessage(conversationId, messageId, text) ==
    [conversationId |-> conversationId, messageId |-> messageId, sender |-> "ann",
     text |-> text, timestamp |-> messageId]

\* flattenedMessages.json as the requests find it: missing, unparsable,
\* empty, and with conversations of one to four messages, with and without
\* text
SummarizeFiles ==
    { AbsentFile, CorruptFile, File(<<>>),
      File(JsonDump(<<FlatMessage("c1", "m1", <<"a", " ", "B">>)>>)),
      File(JsonDump(<<FlatMessage("c1", "m1", <<>>)>>)),
      File(JsonDump(<<FlatMessage("c1", "m1", <<"a", " ", "b">>),
                      FlatMessage("c2", "m2", <<"w", "o", "r", "d", " ", "a">>),
                      FlatMessage("c1", "m3", <<"b">>)>>)),
      File(JsonDump(<<FlatMessage("c1", "m1", <<"b">>),
                      FlatMessage("c1", "m2", <<"w", "o", "r", "d", " ", "b">>),
                      FlatMessage("c1", "m3", <<>>),
                      FlatMessage("c1", "m4", <<"a", " ", " ", "b", " ", "b">>)>>)) }

\* The server with the engine as constructed and flattenedMessages.json as
\* one of the files above
SummarizeInit ==
    /\ index = NoIndex
    /\ metadata = <<>>
    /\ idxFile = AbsentIndexFile
    /\ metaFile = AbsentFile
    /\ flatFile \in SummarizeFiles
    /\ mockFile \in MockStores
    /\ builds = 0
    /\ gen = [index |-> 0, metadata |-> 0, idxFile |-> 0, metaFile |-> 0]
    /\ lastOp = [op |-> "init", err |-> NoError, messages |-> <<>>, query |-> <<>>,
                 top_k |-> 0, results |-> <<>>, positions |-> <<>>, hits |-> <<>>]
    /\ calls = [t \in Threads |-> IdleCall]

\* POST /summarize with a conversationId and a scope
Summarize ==
    \E conversationId \in ConversationIds, scope \in Scopes :
        LET r == SummarizeResult(flatFile, conversationId, scope)
        IN  /\ lastOp' = [op |-> "summarize", conversationId |-> conversationId,
                          scope |-> scope, err |-> r.err, messages |-> r.messages,
                          status_code |-> r.status_code, summary |-> r.summary,
                          highlights |-> r.highlights]
            /\ UNCHANGED <<index, metadata, idxFile, metaFile, flatFile, mockFile, builds,
                           gen, calls>>

SummarizeNext ==
    Summarize

SummarizeSpec == SummarizeInit /\ [][SummarizeNext]_vars

\* ------------------------------------------------------------ the claims
BuildOps == {"build_index", "build_and_save_index"}

\* The engine is Ready: an index and a non-empty metadata list in memory
Ready(idx, meta) == idx.state = "ok" /\ meta # <<>>

\* C1: search on an engine with no index or no metadata in memory ends with
\* the "not initialized" RuntimeError, whatever the query and top_k, and
\* returns no result list.
C1_SearchUninitialized ==
    (lastOp.op = "search" /\ (index.state = "none" \/ Len(metadata) = 0))
        => lastOp.err = NotInitializedError /\ lastOp.results = <<>>

\* C1 witness: a search with a valid query and top_k on an engine that was
\* never built or loaded has been refused.
C1_Witness ==
    /\ lastOp.op = "search"
    /\ index.state = "none"
    /\ builds = 0
    /\ Strip(lastOp.query) # <<>>
    /\ lastOp.top_k >= 1
    /\ lastOp.err = NotInitializedError

\* C7: a load_index that finds the index file or the metadata file absent
\* ends with FileNotFoundError and leaves index and metadata as they were.
C7_LoadNotFound ==
    [][(lastOp'.op = "load_index"
          /\ (idxFile.state = "absent" \/ metaFile.state = "absent"))
        => /\ lastOp'.err.type = "FileNotFoundError"
           /\ lastOp'.err.cause = ""
           /\ index' = index
           /\ metadata' = metadata]_vars

\* C7 witness: the index file is there and the metadata file is not, and
\* load_index has ended with the metadata FileNotFoundError.
C7_Witness ==
    /\ lastOp.op = "load_index"
    /\ idxFile.state = "ok"
    /\ metaFile.state = "absent"
    /\ lastOp.err = MetaFileNotFound
    /\ index = NoIndex

\* C8: build_index([]) ends with the empty-list ValueError, and so does
\* build_and_save_index on an empty flattened list; neither touches the two
\* files nor the index and metadata in memory.
C8_EmptyInput ==
    [][/\ (lastOp'.op = "build_index" /\ lastOp'.messages = <<>>)
            => /\ lastOp'.err = EmptyMessagesError
               /\ UNCHANGED <<index, metadata, idxFile, metaFile>>
       /\ (lastOp'.op = "build_and_save_index"
             /\ flatFile.state = "ok" /\ Len(flatFile.data) = 0)
            => /\ lastOp'.err.type = "ValueError"
               /\ UNCHANGED <<index, metadata, idxFile, metaFile>>]_vars

\* C8 witness: build_index([]) has been refused on a Ready engine with both
\* files on storage.
C8_Witness ==
    /\ lastOp.op = "build_index"
    /\ lastOp.messages = <<>>
    /\ lastOp.err = EmptyMessagesError
    /\ Ready(index, metadata)
    /\ idxFile.state = "ok"
    /\ metaFile.state = "ok"

\* C2: whenever the engine holds an index, the index has as many vectors as
\* the metadata list has records.  (Stated as the claim has it; the code lets
\* load_index take an index file and a metadata file of different lengths.)
C2_LengthsAgree ==
    index.state = "ok" => NTotal(index) = Len(metadata)

\* C3: a build_index that failed leaves no pair of files that load_index
\* would accept while the index file and the metadata file are from different
\* builds.  (Stated as the claim has it; the code writes the index file in
\* place before it opens the metadata file.)
C3_NoMixedPairAfterFailedBuild ==
    (/\ lastOp.op \in BuildOps
     /\ lastOp.err # NoError
     /\ LoadIndexResult(index, metadata, idxFile, metaFile).err = NoError)
        => gen.idxFile = gen.metaFile

\* C4 as the claim has it: a failed build_index or load_index on a Ready
\* engine leaves index and metadata as they were.
C4_FailureKeepsPriorState ==
    [][(/\ lastOp'.op \in BuildOps \cup {"load_index"}
        /\ lastOp'.err # NoError
        /\ Ready(index, metadata))
        => index' = index /\ metadata' = metadata]_vars

\* C4 amended: on a Ready engine a failed build_index, and a load_index that
\* fails because a file is missing, leave index and metadata as they were; a
\* load_index that fails while reading the files leaves index None and
\* metadata empty.
C4_FailureKeepsOrResets ==
    [][(/\ lastOp'.op \in BuildOps \cup {"load_index"}
        /\ lastOp'.err # NoError
        /\ Ready(index, metadata))
        => IF lastOp'.op = "load_index" /\ lastOp'.err.type # "FileNotFoundError"
           THEN index' = NoIndex /\ metadata' = <<>>
           ELSE index' = index /\ metadata' = metadata]_vars

\* C4 witness: a build_index on a Ready engine has failed at the metadata
\* file after replacing the index file; the engine still holds the index of
\* the earlier build.
C4_Witness ==
    /\ lastOp.op = "build_index"
    /\ lastOp.err = MetaOpenError
    /\ Ready(index, metadata)
    /\ gen.index = gen.metadata
    /\ gen.idxFile > gen.index

\* C5: a load_index that fails leaves the engine without index and metadata,
\* and its caller gets the error that occurred, not one wrapping it.  (Stated
\* as the claim has it; the code raises a new RuntimeError from what
\* read_index or json.load raised.)
C5_LoadFailureUnwrapped ==
    (lastOp.op = "load_index" /\ lastOp.err # NoError)
        => /\ index = NoIndex
           /\ metadata = <<>>
           /\ lastOp.err.cause = ""

\* C6: load_index on an index file and a metadata file of different lengths
\* fails, and the engine never holds such a pair.  (Stated as the claim has
\* it; load_index compares no lengths.)
C6_LoadRejectsMismatch ==
    (/\ lastOp.op = "load_index"
     /\ idxFile.state = "ok"
     /\ metaFile.state = "ok"
     /\ idxFile.data.ntotal # Len(metaFile.data))
        => /\ lastOp.err # NoError
           /\ ~Ready(index, metadata)

\* The errors a failing write of build_index ends with
WriteErrors == {MakedirsError, WriteIndexError, MetaOpenError, MetaDumpError}

\* C9: build_index on a list with a record whose "text" is missing or empty
\* ends, unless a write fails, with the KeyError of the missing field, and
\* neither the engine nor the metadata file holds that list.  (Stated as the
\* claim has it; the code embeds an empty text like any other.)
C9_TextRequired ==
    (/\ lastOp.op = "build_index"
     /\ \E i \in 1..Len(lastOp.messages) :
            \/ "text" \notin DOMAIN lastOp.messages[i]
            \/ lastOp.messages[i]["text"] = <<>>)
        => /\ lastOp.err \notin WriteErrors => lastOp.err = TextKeyError
           /\ metadata # lastOp.messages
           /\ metaFile.state = "ok" => JsonLoad(metaFile.data) # lastOp.messages

\* C10: a search that returns gives at most top_k results, scores never
\* increasing, and of two results of equal score the one at the lower position
\* of the index first.  (Stated as the claim has it; the order among equal
\* scores is whatever the index returns.)
C10_RankedWithTieBreak ==
    (lastOp.op = "search" /\ lastOp.err = NoError)
        => /\ Len(lastOp.results) <= lastOp.top_k
           /\ \A i, j \in 1..Len(lastOp.results) :
                 i < j =>
                    /\ lastOp.results[i].score >= lastOp.results[j].score
                    /\ lastOp.results[i].score = lastOp.results[j].score
                          => lastOp.positions[i] < lastOp.positions[j]

\* C11: a search that returns gives exactly min(top_k, N) results, N being the
\* number of vectors the index holds; in particular N results when top_k > N.
C11_ExactCount ==
    (lastOp.op = "search" /\ lastOp.err = NoError)
        => Len(lastOp.results) = Min(lastOp.top_k, NTotal(index))

\* C12: on an engine that holds an index and metadata, a search whose query is
\* empty or consists of blanks ends with the query ValueError whatever top_k
\* is, and returns no list.
C12_BlankQueryRejected ==
    (lastOp.op = "search" /\ Ready(index, metadata) /\ Strip(lastOp.query) = <<>>)
        => /\ lastOp.err = QueryError
           /\ lastOp.results = <<>>

C12_Witness ==
    /\ lastOp.op = "search"
    /\ Ready(index, metadata)
    /\ lastOp.query = <<" ">>
    /\ lastOp.top_k = MaxTopK
    /\ lastOp.err = QueryError

\* C13: on an engine that holds an index and metadata, a search with a query
\* that is not blank and a top_k below 1 ends with the top_k ValueError and
\* returns no list.
C13_TopKRejected ==
    (lastOp.op = "search" /\ Ready(index, metadata)
        /\ Strip(lastOp.query) # <<>> /\ lastOp.top_k < 1)
        => /\ lastOp.err = TopKError
           /\ lastOp.results = <<>>

C13_Witness ==
    /\ lastOp.op = "search"
    /\ Ready(index, metadata)
    /\ lastOp.query = <<"a", " ">>
    /\ lastOp.top_k = 0
    /\ lastOp.err = TopKError

\* C14: a load_index that directly follows a successful build succeeds, and
\* every search then has the outcomes it had before the load: the same error,
\* or the same result lists in the same order.
C14_BuildLoadRoundTrip ==
    [][(/\ lastOp.op \in BuildOps \cup {"bulk_update"}
        /\ lastOp.err = NoError
        /\ lastOp'.op = "load_index")
           => /\ lastOp'.err = NoError
              /\ \A q \in Queries, k \in TopKs :
                    /\ SearchValidation(index', metadata', q, k)
                          = SearchValidation(index, metadata, q, k)
                    /\ SearchValidation(index, metadata, q, k) = NoError
                          => SearchOutcomes(index', metadata', q, k)
                                = SearchOutcomes(index, metadata, q, k)]_vars

C14_Witness ==
    /\ lastOp.op = "load_index"
    /\ lastOp.err = NoError
    /\ Len(metadata) = 3
    /\ NTotal(index) = 3
    /\ gen.index = builds
    /\ gen.metadata = builds
    /\ gen.idxFile = builds
    /\ gen.metaFile = builds

\* The calls that rebuild the index from flattenedMessages.json
Rebuilds == {"build_and_save_index", "bulk_update"}

\* C17: when a rebuild from the flattened messages has succeeded, the engine
\* holds the index built from those messages and those messages as metadata;
\* a search leaves both in place and makes its results from the records of
\* that metadata; and the hits of the search that follows the rebuild are a
\* ranking of the vectors of the new index.
C17_SearchAfterRebuild ==
    [][/\ (lastOp'.op \in Rebuilds /\ lastOp'.err = NoError)
            => /\ index' = ConstructIndex(JsonLoad(flatFile'.data))
               /\ metadata' = JsonLoad(flatFile'.data)
               /\ gen'.index = builds'
               /\ gen'.metadata = builds'
       /\ (lastOp'.op = "search" /\ lastOp'.err = NoError)
            => LET kept == ValidHits(lastOp'.hits, metadata)
               IN  /\ UNCHANGED <<index, metadata, gen>>
                   /\ lastOp'.results
                         = [i \in 1..Len(kept) |->
                               SearchResult(metadata[kept[i][2] + 1], kept[i][1])]
       /\ (/\ lastOp.op \in Rebuilds
           /\ lastOp.err = NoError
           /\ lastOp'.op = "search"
           /\ lastOp'.err = NoError)
            => LET q == NormalizeL2(Embed(lastOp'.query))
                   hits == lastOp'.hits
               IN  /\ Len(hits) = Min(lastOp'.top_k, Len(lastOp.messages))
                   /\ IsRanking(ConstructIndex(lastOp.messages), q,
                                [i \in 1..Len(hits) |-> hits[i][2]])
                   /\ \A i \in 1..Len(hits) :
                         hits[i][1] = ScoreAt(ConstructIndex(lastOp.messages), q, hits[i][2])]_vars

C17_Witness ==
    /\ lastOp.op = "search"
    /\ lastOp.err = NoError
    /\ builds = 2
    /\ gen.index = 2
    /\ gen.metadata = 2
    /\ flatFile.state = "ok"
    /\ metadata = JsonLoad(flatFile.data)
    /\ index = ConstructIndex(metadata)
    /\ Len(mockFile.data) = 2
    /\ Len(lastOp.results) = 2

\* The hits of the last search that name a stored vector
RealHits == SelectSeq(lastOp.hits, LAMBDA h : h[2] # -1)

\* C18: the results of a search are the hits the index returned, in the order
\* it returned them, none left out: result i is made of the metadata record
\* at the position of hit i, with the score of hit i.
C18_ResultsFollowHits ==
    (lastOp.op = "search" /\ lastOp.err = NoError)
        => /\ Len(lastOp.results) = Len(RealHits)
           /\ \A i \in 1..Len(RealHits) :
                 /\ RealHits[i][2] < Len(metadata)
                 /\ lastOp.results[i]
                       = SearchResult(metadata[RealHits[i][2] + 1], RealHits[i][1])

\* C20: no two records of the engine's metadata have the same messageId.
C20_UniqueMessageIds ==
    \A i, j \in 1..Len(metadata) :
        i # j => metadata[i].messageId # metadata[j].messageId

\* No build_index or load_index call is under way
NoWriterRunning ==
    \A t \in Threads : calls[t].op \in {"build_index", "load_index"} => calls[t].pc = "done"

\* C15: a search that overlaps a build or a load takes its hits and its
\* records from one pair: the index it searched and the metadata it read the
\* records from are of the same generation.  (Looked at once the builds and
\* loads have returned and have left the engine with an index and metadata of
\* one generation, so that a difference can only come from the search having
\* read the two at different moments.)
C15_NoTornRead ==
    \A t \in Threads :
        (/\ calls[t].op = "search"
         /\ calls[t].pc = "done"
         /\ calls[t].err = NoError
         /\ NoWriterRunning
         /\ gen.index = gen.metadata)
            => calls[t].igen = calls[t].mgen

\* C16: when build_index and load_index calls that overlapped have all
\* returned, the two files are of one build and the engine's index and
\* metadata are of one build or load.
C16_WritersSerialized ==
    NoWriterRunning
        => /\ (idxFile.state = "ok" /\ metaFile.state = "ok") => gen.idxFile = gen.metaFile
           /\ index.state = "ok" => gen.index = gen.metadata

\* C19: no step of a search call, whether it ends with results or with an
\* error and whatever other searches are under way, changes the engine's
\* index or metadata or either file.
C19_SearchReadOnly ==
    [][\A t \in Threads :
          (calls'[t] # calls[t] /\ calls'[t].op = "search")
              => UNCHANGED <<index, metadata, idxFile, metaFile>>]_vars

C19_Witness ==
    /\ Ready(index, metadata)
    /\ calls[1].op = "search"
    /\ calls[1].pc = "done"
    /\ calls[1].err = NoError
    /\ Len(calls[1].results) = 2
    /\ calls[2].op = "search"
    /\ calls[2].pc = "results"

\* ---------------------------------------------------------------------
\* C21: build_index replaces the index and the metadata in memory only after
\* the new index has been constructed and both files have been written: a step
\* of a build that changes what the engine holds ends without an error, and in
\* the state it leaves both files are the writing of what the engine now holds
\* and carry the generation of the engine.
BuildCallers == {"build_index", "build_and_save_index", "bulk_update"}

C21_SwapAfterPersist ==
    [][(/\ lastOp'.op \in BuildCallers
        /\ builds' # builds
        /\ \/ index' # index
           \/ metadata' # metadata
           \/ gen'.index # gen.index
           \/ gen'.metadata # gen.metadata)
       => /\ lastOp'.err = NoError
          /\ index' = ConstructIndex(lastOp'.messages)
          /\ metadata' = lastOp'.messages
          /\ idxFile' = WriteIndex(index')
          /\ metaFile' = File(JsonDump(metadata'))
          /\ gen'.index = builds'
          /\ gen'.metadata = builds'
          /\ gen'.idxFile = builds'
          /\ gen'.metaFile = builds']_vars

\* a second build has replaced the engine of the first one, and both files
\* are those of the second build
C21_Witness ==
    /\ lastOp.op = "build_index"
    /\ lastOp.err = NoError
    /\ builds = 2
    /\ gen = [index |-> 2, metadata |-> 2, idxFile |-> 2, metaFile |-> 2]
    /\ Len(metadata) = 2
    /\ idxFile = WriteIndex(index)
    /\ metaFile = File(JsonDump(metadata))

\* ---------------------------------------------------------------------
\* C22: a load_index that fails, as the one of startup_event may, leaves the
\* engine without index and metadata, and the application goes on serving;
\* from then until a build or a load succeeds every semantic-search request
\* is answered with an error and none with a result list.
\* Unavailable: no build and no load has succeeded since the engine was
\* constructed or last reset by a failed load.
Unavailable == gen.index = 0 /\ gen.metadata = 0

C22_UnavailableUntilSuccess ==
    [][/\ (lastOp'.op = "load_index" /\ lastOp'.err # NoError)
            => /\ Unavailable'
               /\ NotInitialized(index', metadata')
       /\ (Unavailable /\ lastOp'.op = "search")
            => LET response == SemanticSearchResponse(lastOp'.query, lastOp'.top_k,
                                                      lastOp'.err, lastOp'.results)
               IN  /\ lastOp'.err = NotInitializedError
                   /\ response.status_code \in {422, 500}
                   /\ "results" \notin DOMAIN response
                   /\ Unavailable'
       /\ (Unavailable /\ ~Unavailable')
            => /\ lastOp'.op \in BuildCallers \cup {"load_index"}
               /\ lastOp'.err = NoError
               /\ Ready(index', metadata')]_vars

\* a first build succeeded and a second one broke the index file, so the
\* engine can be without index only through a load that failed; a search
\* request with a valid query and top_k then got the error
C22_Witness ==
    /\ gen.metaFile = 1 /\ metaFile.state = "ok"
    /\ gen.idxFile = 2 /\ idxFile.state = "corrupt"
    /\ Unavailable
    /\ index = NoIndex
    /\ lastOp.op = "search"
    /\ lastOp.err = NotInitializedError
    /\ SemanticSearchResponse(lastOp.query, lastOp.top_k, lastOp.err,
                              lastOp.results).status_code = 500

\* ---------------------------------------------------------------------
\* C23: a bulk-update request on a store in which no conversation holds two
\* messages with the same messageId leaves a store in which no conversation
\* does, and in which every conversation still begins with the messages it
\* had, in their order.
NoDuplicateIds(store) ==
    \A c \in 1..Len(store) :
        \A i, j \in 1..Len(store[c].messageResponse) :
            i # j => store[c].messageResponse[i].messageId
                        # store[c].messageResponse[j].messageId

StoredKept(before, after) ==
    /\ Len(before) <= Len(after)
    /\ \A c \in 1..Len(before) :
          /\ after[c].conversationId = before[c].conversationId
          /\ Len(before[c].messageResponse) <= Len(after[c].messageResponse)
          /\ SubSeq(after[c].messageResponse, 1, Len(before[c].messageResponse))
                = before[c].messageResponse

C23_MergeWithoutDuplicates ==
    [][(lastOp'.op = "bulk_update" /\ NoDuplicateIds(LoadMockMessages(mockFile)))
       => /\ NoDuplicateIds(LoadMockMessages(mockFile'))
          /\ StoredKept(LoadMockMessages(mockFile), LoadMockMessages(mockFile'))]_vars

\* the half of C23 that the handler keeps
C23_StoredKept ==
    [][lastOp'.op = "bulk_update"
       => StoredKept(LoadMockMessages(mockFile), LoadMockMessages(mockFile'))]_vars

\* ---------------------------------------------------------------------
\* C24: bulk-update undoes nothing.  After every request the conversation
\* store holds the merge of what it held with the request.  When the request
\* fails, in flattenMessages.py or in the rebuild, the engine holds the index
\* and the metadata it held before; when it succeeds, the metadata of the
\* engine is the flattening of the stored conversations and the index is the
\* one built from it.
C24_NoRollback ==
    [][lastOp'.op = "bulk_update"
       => /\ \E conversations \in BulkRequests :
                mockFile' = File(MergeConversations(LoadMockMessages(mockFile),
                                                    conversations))
          /\ lastOp'.err # NoError
                => /\ index' = index
                   /\ metadata' = metadata
                   /\ gen'.index = gen.index
                   /\ gen'.metadata = gen.metadata
          /\ lastOp'.err = NoError
                => /\ metadata' = FlattenMessages(mockFile'.data)
                   /\ index' = ConstructIndex(metadata')
                   /\ gen'.index = builds'
                   /\ gen'.metadata = builds']_vars

\* a first request was merged and indexed; a second one failed in the
\* rebuild: the store holds its messages, the engine those of the first
C24_Witness ==
    /\ lastOp.op = "bulk_update"
    /\ lastOp.err = MetaOpenError
    /\ builds = 2
    /\ gen.index = 1 /\ gen.metadata = 1
    /\ Len(metadata) = 1
    /\ Len(FlattenMessages(mockFile.data)) = 3
    /\ metadata # FlattenMessages(mockFile.data)

\* ---------------------------------------------------------------------
\* C26: search looks at the engine before it validates its arguments.  On an
\* engine without index or metadata a call with a blank query or a top_k
\* below 1 ends with the RuntimeError of the state check, not with one of the
\* ValueErrors; on an engine that holds both, a call whose query is blank and
\* whose top_k is below 1 ends with the ValueError of the query.
C26_StateCheckedFirst ==
    lastOp.op = "search"
        => /\ (NotInitialized(index, metadata)
                  /\ (Strip(lastOp.query) = <<>> \/ lastOp.top_k < 1))
                => (lastOp.err = NotInitializedError
                       /\ lastOp.err \notin {QueryError, TopKError})
           /\ (Ready(index, metadata)
                  /\ Strip(lastOp.query) = <<>> /\ lastOp.top_k < 1)
                => lastOp.err = QueryError

\* a call with an empty query and top_k 0 on the engine as constructed
C26_Witness ==
    /\ lastOp.op = "search"
    /\ NotInitialized(index, metadata)
    /\ lastOp.query = <<>>
    /\ lastOp.top_k = 0
    /\ lastOp.err = NotInitializedError

\* a call with an empty query and top_k 0 on an engine that holds an index
C26_WitnessReady ==
    /\ lastOp.op = "search"
    /\ Ready(index, metadata)
    /\ lastOp.query = <<>>
    /\ lastOp.top_k = 0
    /\ lastOp.err = QueryError

\* ---------------------------------------------------------------------
\* C25: in summarize, a scope last_N whose N is written with digits only
\* restricts the summary to the last N messages of the conversation, which
\* are at most N, for every N from 0 on; a scope last_ followed by anything
\* that is not an integer uses all messages of the conversation.
ConversationOf(flatF, conversationId) ==
    SelectSeq(JsonLoad(flatF.data), LAMBDA msg : msg.conversationId = conversationId)

LastN(list, n) == SubSeq(list, Len(list) - Min(n, Len(list)) + 1, Len(list))

IsInteger(s) ==
    \/ IsDigits(s)
    \/ s # <<>> /\ Head(s) \in {"+", "-"} /\ IsDigits(Tail(s))

ScopeSuffix(scope) == SubSeq(scope, Len(LastPrefix) + 1, Len(scope))

Summarized ==
    /\ lastOp.op = "summarize"
    /\ lastOp.status_code = 200
    /\ StartsWith(lastOp.scope, LastPrefix)

C25_LastNScope ==
    Summarized
        => LET suffix == ScopeSuffix(lastOp.scope)
               conversation == ConversationOf(flatFile, lastOp.conversationId)
           IN  /\ IsDigits(suffix)
                    => /\ Len(lastOp.messages) <= Decimal(suffix)
                       /\ lastOp.messages = LastN(conversation, Decimal(suffix))
               /\ ~IsInteger(Strip(suffix))
                    => lastOp.messages = conversation

\* what the handler keeps of C25: for N from 1 on the last N messages are
\* used, and a suffix without "_" that is not an integer uses all messages
C25_PositiveN ==
    Summarized
        => LET suffix == ScopeSuffix(lastOp.scope)
               conversation == ConversationOf(flatFile, lastOp.conversationId)
           IN  /\ (IsDigits(suffix) /\ Decimal(suffix) >= 1)
                    => /\ Len(lastOp.messages) <= Decimal(suffix)
                       /\ lastOp.messages = LastN(conversation, Decimal(suffix))
               /\ (~IsInteger(Strip(suffix)) /\ Len(Split(suffix, "_")) = 1)
                    => lastOp.messages = conversation

====
